---- MODULE Spec2Model ----
(***************************************************************************)
(* The host-side syscall bridge of the FVM: the cgo block store bridge      *)
(* (cgo/blockstore/rust/src/lib.rs) and the crypto syscalls                 *)
(* (fvm/src/syscalls/crypto.rs).                                            *)
(*                                                                          *)
(* Three specifications share the variables:                                *)
(*   Spec       the block store bridge over one handle;                     *)
(*   HashSpec   verify_signature and hash_blake2b over guest memory;        *)
(*   FaultSpec  verify_consensus_fault and the return-value side channel.   *)
(***************************************************************************)
EXTENDS Integers, Sequences, FiniteSets, TLC

VARIABLES
    \* ---- block store bridge ----
    handle,        \* Blockstore.handle
    registry,      \* handles registered on the foreign side
    faithful,      \* the foreign store behaves as a key/value map
    store,         \* foreign store: key bytes -> <<>> (absent) or <<value>>
    heap,          \* buffers the foreign side allocated for get: bytes, the
                   \* status they came with, how often they were released
    blocks,        \* the BlockReaders built so far, each live or dropped
    written,       \* per cid, what the bridge's caller last stored successfully
    last,          \* the last bridge operation and its outcome
    aborted,       \* a panic has ended the process
    nops,          \* bridge operations so far
    \* ---- crypto syscalls ----
    memory,        \* the guest's linear memory
    return_stack,  \* the kernel's return-value side channel
    sys,           \* the last syscall and its result
    ncalls,        \* syscalls so far in this message
    digests,       \* (guest input bytes, digest written) of each successful hash
    nproved,       \* verify_consensus_fault calls that returned true
    nretrieved     \* payloads the guest has retrieved

bsvars == <<handle, registry, faithful, store, heap, blocks, written, last, aborted, nops>>
cryptovars == <<memory, return_stack, sys, ncalls, digests, nproved, nretrieved>>
vars == <<bsvars, cryptovars>>

\* ------------------------------------------------------------------ bounds
MaxOps == 5
MaxBadOps == 2
MaxStatus == 2
MaxCalls == 2
MaxArg == 1
MemSlack == 0

\* ------------------------------------------------------- program constants
ERR_NO_STORE == -1
ERR_NOT_FOUND == -2
HASH_LEN == 32
INT32_MAX == 2147483647
INT32_MIN == (-INT32_MAX) - 1

\* ======================================================================
\*                         BLOCK STORE BRIDGE
\* ======================================================================

\* The int32 statuses a foreign call is tried with: a band around zero and
\* the two ends of the type.
Statuses == (-(MaxStatus + 1) .. MaxStatus) \cup {INT32_MIN, INT32_MAX}

Handles == {0, 1}
Cids == [codec : {85, 113}, digest : {<<7>>}]
Values == {<<10>>, <<11, 12>>}

\* Cid::to_bytes: version, codec, multihash (code, length, digest).
to_bytes(k) == <<1, k.codec, 18, Len(k.digest)>> \o k.digest

KeyBytes == {to_bytes(k) : k \in Cids}

\* Outcomes of a bridge operation.
OkUnit == [kind |-> "Ok", bool |-> FALSE, err |-> "", block |-> <<>>]
OkBool(b) == [kind |-> "Ok", bool |-> b, err |-> "", block |-> <<>>]
OkBlock(blk) == [kind |-> "Ok", bool |-> FALSE, err |-> "", block |-> <<blk>>]
Err(e) == [kind |-> "Err", bool |-> FALSE, err |-> e, block |-> <<>>]
Panic == [kind |-> "Panic", bool |-> FALSE, err |-> "", block |-> <<>>]

\* BlockReader { cid, reader: Cursor<Vec<u8>>, length }: the Vec is built by
\* Vec::from_raw_parts over the buffer the call has just handed over (buf, in
\* the heap as the call leaves it), with length and capacity size.
BlockReader(k, buf, size) ==
    [cid |-> k,
     buf |-> buf,
     reader |-> SubSeq(heap'[buf].bytes, 1, size),
     length |-> size,
     live |-> TRUE]

\* ---- the match of each operation on the status the foreign call returned

has_match_off_by_one(r) ==
    IF r = 0 \/ r = ERR_NOT_FOUND THEN OkBool(FALSE)
    ELSE IF r = 1 THEN OkBool(TRUE)
    ELSE IF r > 2 THEN Panic
    ELSE IF r = ERR_NO_STORE THEN Panic
    ELSE Err("Other")

has_match_strict(r) ==
    IF r = 0 THEN OkBool(FALSE)
    ELSE IF r = 1 THEN OkBool(TRUE)
    ELSE Panic

has_match(r) ==
    IF r = 0 \/ r = ERR_NOT_FOUND THEN OkBool(FALSE)
    ELSE IF r = 1 THEN OkBool(TRUE)
    ELSE IF r >= 2 THEN Panic
    ELSE IF r = ERR_NO_STORE THEN Panic
    ELSE Err("Other")

get_match_off_by_one(r, k, buf, size) ==
    IF r = 0 THEN OkBlock(BlockReader(k, buf, size))
    ELSE IF r >= 2 THEN Panic
    ELSE IF r = ERR_NO_STORE THEN Panic
    ELSE IF r = ERR_NOT_FOUND THEN Err("NotFound")
    ELSE Err("Other")

get_match(r, k, buf, size) ==
    IF r = 0 THEN OkBlock(BlockReader(k, buf, size))
    ELSE IF r >= 1 THEN Panic
    ELSE IF r = ERR_NO_STORE THEN Panic
    ELSE IF r = ERR_NOT_FOUND THEN Err("NotFound")
    ELSE Err("Other")

put_match_lenient(r) ==
    IF r = 0 THEN OkUnit
    ELSE IF r >= 1 THEN Panic
    ELSE IF r = ERR_NO_STORE THEN Panic
    ELSE Err("Other")

put_match(r) ==
    IF r = 0 THEN OkUnit
    ELSE IF r >= 1 THEN Panic
    ELSE IF r = ERR_NO_STORE THEN Panic
    ELSE IF r = ERR_NOT_FOUND THEN Panic
    ELSE Err("Other")

delete_match_not_found(r) ==
    IF r = 0 THEN OkUnit
    ELSE IF r >= 1 THEN Panic
    ELSE IF r = ERR_NO_STORE THEN Panic
    ELSE IF r = ERR_NOT_FOUND THEN Err("NotFound")
    ELSE Err("Other")

delete_match(r) ==
    IF r = 0 THEN OkUnit
    ELSE IF r >= 1 THEN Panic
    ELSE IF r = ERR_NO_STORE THEN Panic
    ELSE IF r = ERR_NOT_FOUND THEN OkUnit
    ELSE Err("Other")

\* ---- the foreign side of the call protocol (sys::cgobs_*)

Absent == <<>>
Present(v) == <<v>>

cgobs_has(h, kb) ==
    IF faithful
    THEN IF h \notin registry THEN {ERR_NO_STORE}
         ELSE IF store[kb] # Absent THEN {1}
         ELSE {0, ERR_NOT_FOUND}
    ELSE Statuses

\* A response of cgobs_get: the status and what the callee left in the
\* out-parameters (buf, size): nothing, or a freshly allocated buffer.
cgobs_get(h, kb) ==
    IF faithful
    THEN IF h \notin registry THEN {[status |-> ERR_NO_STORE, out |-> Absent]}
         ELSE IF store[kb] # Absent THEN {[status |-> 0, out |-> store[kb]]}
         ELSE {[status |-> ERR_NOT_FOUND, out |-> Absent]}
    ELSE {[status |-> 0, out |-> Present(v)] : v \in Values}
         \cup [status : Statuses \ {0}, out : {Absent, Present(<<10>>)}]

\* A response of cgobs_put / cgobs_delete: the status and the store it leaves.
cgobs_put(h, kb, v) ==
    IF faithful
    THEN IF h \notin registry THEN {[status |-> ERR_NO_STORE, store |-> store]}
         ELSE {[status |-> 0, store |-> [store EXCEPT ![kb] = Present(v)]]}
    ELSE {[status |-> s,
           store |-> IF s = 0 THEN [store EXCEPT ![kb] = Present(v)] ELSE store] :
          s \in Statuses}

cgobs_delete(h, kb) ==
    IF faithful
    THEN IF h \notin registry THEN {[status |-> ERR_NO_STORE, store |-> store]}
         ELSE IF store[kb] # Absent
              THEN {[status |-> 0, store |-> [store EXCEPT ![kb] = Absent]]}
              ELSE [status : {0, ERR_NOT_FOUND}, store : {store}]
    ELSE {[status |-> s,
           store |-> IF s = 0 THEN [store EXCEPT ![kb] = Absent] ELSE store] :
          s \in Statuses}

\* ---- the bridge operations

\* Operations a run makes: MaxOps against a store that behaves as a map,
\* MaxBadOps against one that answers with arbitrary statuses (there the
\* outcome of an operation depends on the status alone).
OpsBound == IF faithful THEN MaxOps ELSE MaxBadOps

put_args_short(k, block) ==
    [key |-> to_bytes(k), value |-> SubSeq(block, 1, Len(block) - 1)]

\* What put hands to the foreign call: k_bytes and the block with its length.
put_args(k, block) ==
    [key |-> to_bytes(k), value |-> SubSeq(block, 1, Len(block))]

Done(op, k, v, r, out) ==
    /\ last' = [op |-> op, cid |-> k, value |-> v, status |-> r, outcome |-> out]
    /\ aborted' = (out.kind = "Panic")
    /\ nops' = nops + 1

Has(k) ==
    /\ ~aborted /\ nops < OpsBound
    /\ \E r \in cgobs_has(handle, to_bytes(k)) :
          Done("has", k, <<>>, r, has_match(r))
    /\ UNCHANGED <<handle, registry, faithful, store, heap, blocks, written>>

Get(k) ==
    /\ ~aborted /\ nops < OpsBound
    /\ \E resp \in cgobs_get(handle, to_bytes(k)) :
          /\ heap' = IF resp.out = Absent THEN heap
                     ELSE Append(heap, [bytes |-> resp.out[1],
                                        status |-> resp.status, frees |-> 0])
          /\ LET buf == IF resp.out = Absent THEN 0 ELSE Len(heap')
                 size == IF resp.out = Absent THEN 0 ELSE Len(resp.out[1])
                 out == get_match(resp.status, k, buf, size)
             IN /\ blocks' = blocks \o out.block
                /\ Done("get", k, <<>>, resp.status, out)
    /\ UNCHANGED <<handle, registry, faithful, store, written>>

Put(k, block) ==
    /\ ~aborted /\ nops < OpsBound
    /\ LET a == put_args(k, block)
       IN \E resp \in cgobs_put(handle, a.key, a.value) :
            LET out == put_match(resp.status)
            IN /\ store' = resp.store
               /\ written' = IF out.kind = "Ok"
                             THEN [written EXCEPT ![k] = Present(block)]
                             ELSE written
               /\ Done("put", k, block, resp.status, out)
    /\ UNCHANGED <<handle, registry, faithful, heap, blocks>>

Delete(k) ==
    /\ ~aborted /\ nops < OpsBound
    /\ \E resp \in cgobs_delete(handle, to_bytes(k)) :
          LET out == delete_match(resp.status)
          IN /\ store' = resp.store
             /\ written' = IF out.kind = "Ok"
                           THEN [written EXCEPT ![k] = Absent]
                           ELSE written
             /\ Done("delete", k, <<>>, resp.status, out)
    /\ UNCHANGED <<handle, registry, faithful, heap, blocks>>

\* Dropping a BlockReader drops its Vec, which releases the buffer.
DropBlock(i) ==
    /\ ~aborted
    /\ blocks[i].live
    /\ blocks' = [blocks EXCEPT ![i].live = FALSE]
    /\ heap' = [heap EXCEPT ![blocks[i].buf].frees = @ + 1]
    /\ UNCHANGED <<handle, registry, faithful, store, written, last, aborted, nops>>


\* ======================================================================
\*                           CRYPTO SYSCALLS
\* ======================================================================

\* The guest's linear memory holds MemSize bytes.
MemSize == HASH_LEN + MemSlack

\* A u32 far beyond the memory.
Huge == INT32_MAX

\* The u32 offsets and lengths a guest passes.
U32Args == (0 .. MaxArg) \cup {MemSize, Huge}

\* Result<_, Trap> of the memory helpers: <<>> is the trap, <<x>> is Ok(x).
Trap == <<>>
Ok(x) == <<x>>
IsOk(res) == res # Trap

\* Memory::try_slice(offset, len): the len bytes at offset, or out of bounds.
try_slice(mem, offset, len) ==
    IF offset <= Len(mem) /\ len <= Len(mem) - offset
    THEN Ok(SubSeq(mem, offset + 1, offset + len))
    ELSE Trap

\* Memory::try_slice_mut(offset, len): the same range, writable; it is given
\* here as the offset at which the writes land.
try_slice_mut(mem, offset, len) ==
    IF offset <= Len(mem) /\ len <= Len(mem) - offset
    THEN Ok(offset)
    ELSE Trap

\* obuf.copy_from_slice(src) for a range obtained at offset.
copy_from_slice(mem, offset, src) ==
    [i \in 1..Len(mem) |->
        IF i > offset /\ i <= offset + Len(src) THEN src[i - offset] ELSE mem[i]]

\* Memory::read_cbor::<Signature>: a type byte (1 secp256k1, 2 bls), then the
\* signature bytes.
read_cbor_signature(mem, offset, len) ==
    LET raw == try_slice(mem, offset, len)
    IN IF ~IsOk(raw) THEN Trap
       ELSE IF Len(raw[1]) = 0 \/ raw[1][1] \notin {1, 2} THEN Trap
       ELSE Ok([sig_type |-> raw[1][1], bytes |-> Tail(raw[1])])

\* Memory::read_address: a protocol byte (0..3), then the payload.
read_address(mem, offset, len) ==
    LET raw == try_slice(mem, offset, len)
    IN IF ~IsOk(raw) THEN Trap
       ELSE IF Len(raw[1]) = 0 \/ raw[1][1] \notin 0..3 THEN Trap
       ELSE Ok([protocol |-> raw[1][1], payload |-> Tail(raw[1])])

RECURSIVE Checksum(_)
Checksum(data) ==
    IF data = <<>> THEN 0
    ELSE (Len(data) * data[Len(data)] + 31 + Checksum(SubSeq(data, 1, Len(data) - 1))) % 251

\* The digest function behind Kernel::hash_blake2b: 32 bytes, a function of
\* the data alone.
blake2b_256(data) == [i \in 1..HASH_LEN |-> (Checksum(data) + 3 * i + 64) % 256]

\* Kernel::hash_blake2b(data): the digest, or an error of the kernel.
kernel_hash_blake2b(data) == {Trap, Ok(blake2b_256(data))}

\* Kernel::verify_signature(sig, addr, plaintext): valid, invalid, or an error.
kernel_verify_signature(sig, addr, plaintext) == {Trap, Ok(TRUE), Ok(FALSE)}

\* What the kernel answered: nothing yet, an error, a value, or (for
\* verify_consensus_fault) Ok(None) and Ok(Some(fault)).
KNot == [kind |-> "", fault |-> <<>>]
KErr == [kind |-> "err", fault |-> <<>>]
KOk == [kind |-> "ok", fault |-> <<>>]
KNone == [kind |-> "none", fault |-> <<>>]
KSome(f) == [kind |-> "fault", fault |-> <<f>>]

\* The record of a syscall: its raw-byte argument (off, len), its output
\* offset, the bytes handed to the kernel, the kernel's answer (kres, kfault),
\* the result, and the memory and return stack as they were before it.
NoSys == [op |-> "none", off |-> 0, len |-> 0, obuf |-> 0, handed |-> <<>>,
          kres |-> "", kfault |-> <<>>, result |-> "", before |-> <<>>,
          stack |-> <<>>]

Running == sys.result # "trap" /\ ncalls < MaxCalls

Returned(op, off, len, obuf, handed, kres, result) ==
    /\ sys' = [op |-> op, off |-> off, len |-> len, obuf |-> obuf,
               handed |-> handed, kres |-> kres.kind, kfault |-> kres.fault,
               result |-> result, before |-> memory, stack |-> return_stack]
    /\ ncalls' = ncalls + 1

verify_signature(sig_off, sig_len, addr_off, addr_len, plaintext_off, plaintext_len) ==
    /\ Running
    /\ LET sig == read_cbor_signature(memory, sig_off, sig_len)
           addr == read_address(memory, addr_off, addr_len)
           plaintext == try_slice(memory, plaintext_len, plaintext_off)
       IN IF ~IsOk(sig) \/ ~IsOk(addr) \/ ~IsOk(plaintext)
          THEN Returned("verify_signature", plaintext_off, plaintext_len, 0,
                        <<>>, KNot, "trap")
          ELSE \E r \in kernel_verify_signature(sig[1], addr[1], plaintext[1]) :
                 Returned("verify_signature", plaintext_off, plaintext_len, 0,
                          plaintext,
                          IF IsOk(r) THEN KOk ELSE KErr,
                          IF ~IsOk(r) THEN "trap"
                          ELSE IF r[1] THEN "true" ELSE "false")
    /\ UNCHANGED <<memory, return_stack, digests, nproved, nretrieved>>

hash_blake2b(data_off, data_len, obuf_off) ==
    /\ Running
    /\ LET data == try_slice(memory, data_len, data_off)
       IN IF ~IsOk(data)
          THEN /\ Returned("hash_blake2b", data_off, data_len, obuf_off,
                           <<>>, KNot, "trap")
               /\ UNCHANGED <<memory, digests>>
          ELSE \E hash \in kernel_hash_blake2b(data[1]) :
                 IF ~IsOk(hash)
                 THEN /\ Returned("hash_blake2b", data_off, data_len, obuf_off,
                                  data, KErr, "trap")
                      /\ UNCHANGED <<memory, digests>>
                 ELSE LET obuf == try_slice_mut(memory, obuf_off, HASH_LEN)
                      IN IF ~IsOk(obuf)
                         THEN /\ Returned("hash_blake2b", data_off, data_len,
                                          obuf_off, data, KOk, "trap")
                              /\ UNCHANGED <<memory, digests>>
                         ELSE /\ memory' = copy_from_slice(memory, obuf[1],
                                              SubSeq(hash[1], 1, HASH_LEN))
                              /\ digests' = digests \cup
                                   {[input |-> SubSeq(memory, data_off + 1,
                                                      data_off + data_len),
                                     digest |-> SubSeq(memory', obuf_off + 1,
                                                       obuf_off + HASH_LEN)]}
                              /\ Returned("hash_blake2b", data_off, data_len,
                                          obuf_off, data, KOk, "ok")
    /\ UNCHANGED <<return_stack, nproved, nretrieved>>

\* The fault details a proven consensus fault carries (ConsensusFault).
Faults == {[target |-> 100, epoch |-> 5, fault_type |-> 1],
           [target |-> 100, epoch |-> 6, fault_type |-> 2]}

\* Kernel::verify_consensus_fault(h1, h2, extra): an error, no fault, or a
\* fault; identical headers prove nothing.
kernel_verify_consensus_fault(h1, h2, extra) ==
    IF h1 = h2 THEN {KErr, KNone} ELSE {KErr, KNone} \cup {KSome(f) : f \in Faults}

\* Kernel::return_push(obj): the payload goes on top of the return stack, or
\* the push fails and the stack is as it was.
return_push(stack, obj) ==
    {[ok |-> TRUE, stack |-> Append(stack, obj)], [ok |-> FALSE, stack |-> stack]}

fault_match_false_on_push(ret, stack) ==
    IF ret = KNone THEN {[result |-> "false", stack |-> stack]}
    ELSE {[result |-> (IF p.ok THEN "false" ELSE "trap"), stack |-> p.stack] :
            p \in return_push(stack, ret.fault[1])}

fault_match_push_twice(ret, stack) ==
    IF ret = KNone THEN {[result |-> "false", stack |-> stack]}
    ELSE {[result |-> (IF p.ok THEN "true" ELSE "trap"),
           stack |-> (IF p.ok THEN Append(p.stack, ret.fault[1]) ELSE p.stack)] :
            p \in return_push(stack, ret.fault[1])}

\* match ret { Some(fault) => return_push(fault).map(|_| true), None => Ok(false) }
fault_match(ret, stack) ==
    IF ret = KNone THEN {[result |-> "false", stack |-> stack]}
    ELSE {[result |-> (IF p.ok THEN "true" ELSE "trap"), stack |-> p.stack] :
            p \in return_push(stack, ret.fault[1])}

verify_consensus_fault(h1_off, h1_len, h2_off, h2_len, extra_off, extra_len) ==
    /\ Running
    /\ LET h1 == try_slice(memory, h1_off, h1_len)
           h2 == try_slice(memory, h2_off, h2_len)
           extra == try_slice(memory, extra_off, extra_len)
       IN IF ~IsOk(h1) \/ ~IsOk(h2) \/ ~IsOk(extra)
          THEN /\ Returned("verify_consensus_fault", 0, 0, 0, <<>>, KNot, "trap")
               /\ UNCHANGED <<return_stack, nproved>>
          ELSE \E ret \in kernel_verify_consensus_fault(h1[1], h2[1], extra[1]) :
                 IF ret = KErr
                 THEN /\ Returned("verify_consensus_fault", 0, 0, 0,
                                  <<h1[1], h2[1], extra[1]>>, KErr, "trap")
                      /\ UNCHANGED <<return_stack, nproved>>
                 ELSE \E m \in fault_match(ret, return_stack) :
                        /\ return_stack' = m.stack
                        /\ nproved' = IF m.result = "true" THEN nproved + 1
                                      ELSE nproved
                        /\ Returned("verify_consensus_fault", 0, 0, 0,
                                    <<h1[1], h2[1], extra[1]>>, ret,
                                    m.result)
    /\ UNCHANGED <<memory, digests, nretrieved>>

\* The guest's retrieval of the pending payload: it takes the top of the
\* return stack.
return_pop ==
    /\ sys.result # "trap"
    /\ return_stack # <<>>
    /\ return_stack' = SubSeq(return_stack, 1, Len(return_stack) - 1)
    /\ nretrieved' = nretrieved + 1
    /\ sys' = [NoSys EXCEPT !.op = "return_pop", !.result = "ok",
                            !.handed = <<return_stack[Len(return_stack)]>>,
                            !.before = memory, !.stack = return_stack]
    /\ UNCHANGED <<memory, ncalls, digests, nproved>>

CryptoInit ==
    /\ memory = [i \in 1..MemSize |-> i]
    /\ return_stack = <<>>
    /\ sys = NoSys
    /\ ncalls = 0
    /\ digests = {}
    /\ nproved = 0
    /\ nretrieved = 0

BsInit ==
    /\ handle \in Handles
    /\ registry = {0}
    /\ faithful \in BOOLEAN
    /\ store = [kb \in KeyBytes |-> Absent]
    /\ heap = <<>>
    /\ blocks = <<>>
    /\ written = [k \in Cids |-> Absent]
    /\ last = [op |-> "none", cid |-> CHOOSE k \in Cids : TRUE, value |-> <<>>,
               status |-> 0, outcome |-> OkUnit]
    /\ aborted = FALSE
    /\ nops = 0

Init == BsInit /\ CryptoInit

Next ==
    \/ \E k \in Cids : Has(k) /\ UNCHANGED cryptovars
    \/ \E k \in Cids : Get(k) /\ UNCHANGED cryptovars
    \/ \E k \in Cids, v \in Values : Put(k, v) /\ UNCHANGED cryptovars
    \/ \E k \in Cids : Delete(k) /\ UNCHANGED cryptovars
    \/ \E i \in 1..Len(blocks) : DropBlock(i) /\ UNCHANGED cryptovars

Spec == Init /\ [][Next]_vars

\* The store of the bridge in the crypto specifications: one registered handle
\* over a map-like store, never used.
BsIdle == BsInit /\ handle = 0 /\ faithful

HashInit == BsIdle /\ CryptoInit

HashNext ==
    \/ \E so, sl, ao, al, po, pl \in U32Args :
          verify_signature(so, sl, ao, al, po, pl) /\ UNCHANGED bsvars
    \/ \E do, dl, oo \in U32Args :
          hash_blake2b(do, dl, oo) /\ UNCHANGED bsvars

HashSpec == HashInit /\ [][HashNext]_vars

\* The u32 offsets and lengths of the three headers.
HeaderArgs == {0, 1, Huge}

FaultInit == BsIdle /\ CryptoInit

FaultNext ==
    \/ \E o1, l1, o2, l2, o3, l3 \in HeaderArgs :
          verify_consensus_fault(o1, l1, o2, l2, o3, l3) /\ UNCHANGED bsvars
    \/ return_pop /\ UNCHANGED bsvars

FaultSpec == FaultInit /\ [][FaultNext]_vars

\* ======================================================================
\*                    CLAIMS ABOUT THE BLOCK STORE BRIDGE
\* ======================================================================

KeyValueStore == faithful /\ handle \in registry
OtherNegative(r) == r < 0 /\ r # ERR_NO_STORE /\ r # ERR_NOT_FOUND
Fatal == last.outcome.kind = "Panic" /\ aborted

\* C1: over a registered handle whose foreign store behaves as a key/value
\* map, every put succeeds; a get of a key that was put (and not deleted
\* since) returns a block whose bytes are the value put, whose size is its
\* length and whose cid is the key; has answers true exactly for the keys put
\* and not deleted since, so false after a delete.
RoundTrip ==
    KeyValueStore =>
        /\ last.op = "put" => last.outcome = OkUnit
        /\ (last.op = "get" /\ written[last.cid] # Absent) =>
              /\ last.outcome.kind = "Ok"
              /\ Len(last.outcome.block) = 1
              /\ last.outcome.block[1].reader = written[last.cid][1]
              /\ last.outcome.block[1].length = Len(written[last.cid][1])
              /\ last.outcome.block[1].cid = last.cid
        /\ last.op = "has" => last.outcome = OkBool(written[last.cid] # Absent)

\* A key was put, read back (its block is still there), deleted, and has now
\* answers false.
RoundTripWitness ==
    /\ KeyValueStore
    /\ last.op = "has" /\ last.outcome = OkBool(FALSE)
    /\ \E i \in 1..Len(blocks) :
          blocks[i].cid = last.cid /\ blocks[i].reader = <<11, 12>>

\* C2: has maps every status to exactly one outcome: 0 and -2 to Ok(false),
\* 1 to Ok(true), -1 and every status >= 2 to a fatal abort, every other
\* negative status to the error Other.
HasStatusTable ==
    last.op = "has" =>
        LET r == last.status
        IN /\ (r = 0 \/ r = -2) => last.outcome = OkBool(FALSE)
           /\ r = 1 => last.outcome = OkBool(TRUE)
           /\ (r = -1 \/ r >= 2) => Fatal
           /\ OtherNegative(r) => last.outcome = Err("Other")
           /\ aborted <=> (r = -1 \/ r >= 2)

HasStatusWitness ==
    last.op = "has" /\ last.status = 2 /\ Fatal

\* C3: get maps every status to exactly one outcome: 0 to a block over the
\* transferred buffer (bytes, size, cid), -2 to NotFound, -1 and every status
\* >= 1 to a fatal abort, every other negative status to Other. A buffer handed
\* over under status 0 is owned by exactly one block, a buffer left by a
\* non-zero status by none, and no buffer is released more than once.
GetStatusTable ==
    /\ last.op = "get" =>
          LET r == last.status
          IN /\ r = 0 =>
                   /\ last.outcome.kind = "Ok"
                   /\ Len(last.outcome.block) = 1
                   /\ LET b == last.outcome.block[1]
                      IN /\ b.buf = Len(heap)
                         /\ b.reader = heap[b.buf].bytes
                         /\ b.length = Len(heap[b.buf].bytes)
                         /\ b.cid = last.cid
             /\ r = -2 => last.outcome = Err("NotFound")
             /\ (r = -1 \/ r >= 1) => Fatal
             /\ OtherNegative(r) => last.outcome = Err("Other")
             /\ aborted <=> (r = -1 \/ r >= 1)
    /\ \A b \in 1..Len(heap) :
          LET owners == {i \in 1..Len(blocks) : blocks[i].buf = b}
          IN /\ Cardinality(owners) = (IF heap[b].status = 0 THEN 1 ELSE 0)
             /\ heap[b].frees <= 1
             /\ heap[b].frees = 1 => \E i \in owners : ~blocks[i].live

\* A block was read and dropped (its buffer released once), and a later get
\* came back not-found although the callee had left a buffer behind.
GetStatusWitness ==
    /\ last.op = "get" /\ last.status = -2 /\ last.outcome = Err("NotFound")
    /\ Len(heap) = 2
    /\ heap[1].status = 0 /\ heap[1].frees = 1
    /\ heap[2].status = -2

\* C4: put maps every status to exactly one outcome: 0 to success, -2, -1 and
\* every status >= 1 to a fatal abort, every other negative status to Other.
PutStatusTable ==
    last.op = "put" =>
        LET r == last.status
        IN /\ r = 0 => last.outcome = OkUnit
           /\ (r = -2 \/ r = -1 \/ r >= 1) => Fatal
           /\ OtherNegative(r) => last.outcome = Err("Other")
           /\ aborted <=> (r = -2 \/ r = -1 \/ r >= 1)

PutStatusWitness ==
    last.op = "put" /\ last.status = INT32_MIN /\ last.outcome = Err("Other")

\* C5: delete succeeds on status 0 and on -2 (not-found); -1 and every status
\* >= 1 give a fatal abort, every other negative status Other. Over a key/value
\* store every delete succeeds, whether or not the key is there, and leaves the
\* store without the key.
DeleteIdempotent ==
    last.op = "delete" =>
        LET r == last.status
        IN /\ (r = 0 \/ r = -2) => last.outcome = OkUnit
           /\ (r = -1 \/ r >= 1) => Fatal
           /\ OtherNegative(r) => last.outcome = Err("Other")
           /\ aborted <=> (r = -1 \/ r >= 1)
           /\ KeyValueStore =>
                 /\ last.outcome = OkUnit
                 /\ store[to_bytes(last.cid)] = Absent
                 /\ written[last.cid] = Absent

\* A delete of a key that is not in the store: the callee said not-found.
DeleteIdempotentWitness ==
    /\ KeyValueStore
    /\ last.op = "delete" /\ last.status = -2 /\ last.outcome = OkUnit
    /\ nops >= 3

\* C6 (as claimed): for has, get, put and delete, a not-found status or another
\* negative status never gives a fatal abort.
NotFoundNeverAborts ==
    (last.op \in {"has", "get", "put", "delete"}
        /\ (last.status = -2 \/ OtherNegative(last.status)))
    => ~aborted /\ last.outcome.kind # "Panic"

\* C6 (amended): for has, get and delete a not-found status or another negative
\* status never gives a fatal abort; for put another negative status never
\* does, while not-found always does.
NotFoundAbortsOnlyPut ==
    /\ (last.op \in {"has", "get", "delete"}
          /\ (last.status = -2 \/ OtherNegative(last.status)))
       => ~aborted /\ last.outcome.kind # "Panic"
    /\ (last.op = "put" /\ OtherNegative(last.status))
       => ~aborted /\ last.outcome.kind # "Panic"
    /\ (last.op = "put" /\ last.status = -2) => Fatal

NotFoundAbortsOnlyPutWitness ==
    last.op = "put" /\ last.status = -2 /\ Fatal

\* ======================================================================
\*                    CLAIMS ABOUT THE CRYPTO SYSCALLS
\* ======================================================================

IsFaultCall == sys.op = "verify_consensus_fault" /\ sys.kres # ""
PushedOne == Len(sys.kfault) = 1 /\ return_stack = Append(sys.stack, sys.kfault[1])
PushedNone == return_stack = sys.stack

RawBytesAsRequested ==
    (sys.op \in {"verify_signature", "hash_blake2b"} /\ sys.handed # <<>>) =>
        sys.handed[1] = SubSeq(sys.before, sys.off + 1, sys.off + sys.len)

\* hash_blake2b's effect on guest memory: on success the 32 bytes at obuf_off
\* are the digest the kernel returned and every other byte is as before; on
\* an abort the memory is as before.
HashFrame ==
    sys.op = "hash_blake2b" =>
        /\ Len(memory) = Len(sys.before)
        /\ sys.result = "ok" =>
              /\ sys.obuf + HASH_LEN <= Len(memory)
              /\ SubSeq(memory, sys.obuf + 1, sys.obuf + HASH_LEN)
                    = blake2b_256(sys.handed[1])
              /\ \A i \in 1..Len(memory) :
                    (i <= sys.obuf \/ i > sys.obuf + HASH_LEN)
                        => memory[i] = sys.before[i]
        /\ sys.result = "trap" => memory = sys.before

\* For a fixed input byte sequence hash_blake2b always writes the same digest.
HashDeterministic ==
    \A a, b \in digests : a.input = b.input => a.digest = b.digest

\* C10: hash_blake2b on success has written exactly the 32 bytes of the digest
\* at obuf_off and changed nothing else, writes the same digest for the same
\* input bytes, and on an abort leaves the memory unchanged.
HashWritesDigest == HashFrame /\ HashDeterministic

====
